---- MODULE Spec2Model ----
(***************************************************************************)
(* Model of the rock-paper-scissors Telegram bot (src/telegram-bot.py).    *)
(*                                                                         *)
(* The program's state is two module-level dictionaries, active_games and  *)
(* user_games, mutated by the command handlers play, join and make_move    *)
(* (reached through /rock, /paper and /scissors).  The dispatcher hands    *)
(* updates to the handlers one at a time, so each handler is one atomic    *)
(* action here.                                                            *)
(*                                                                         *)
(* A Python dict iterates in insertion order, and join() depends on that   *)
(* order, so active_games is a sequence of records carrying their key in   *)
(* the field game_id.  user_games is a function whose domain is the set    *)
(* of users that have an entry.                                            *)
(*                                                                         *)
(* Game ids are the first 8 characters of a uuid4; the model names an id   *)
(* by the order in which it was generated (1, 2, ...), i.e. every id is    *)
(* one that was never generated before.                                    *)
(***************************************************************************)
EXTENDS Integers, Sequences, FiniteSets, TLC

\* ------------------------------------------------------------------ bounds
\* number of game ids the model lets play() generate
MaxGames == 2

\* the Telegram user ids that send commands.  Two users reach every case the
\* formulas below are about; the formulas that hold were also checked with
\* Users = {1, 2, 3} and MaxGames = 3 (2,486,770 distinct states).
Users == {1, 2}

\* --------------------------------------------------------------- constants
\* Python's None in a player slot / as the result of a failed lookup.
None == 0
\* Python's None in a move slot (moves are strings).
NoneMove == "None"

Moves == {"rock", "paper", "scissors"}

VARIABLES
    active_games,   \* dict game_id -> game, in insertion order
    user_games,     \* dict user_id -> game_id
    issued,         \* number of game ids generated so far
    update,         \* the update handled last: command and effective user
    replies,        \* the reply_text calls made by the handler of update
    raised,         \* exception that ended the handler of update, or "none"
    tasks           \* per user: the make_move coroutine suspended at an await
                    \* (used only when handlers are allowed to interleave)

vars == <<active_games, user_games, issued, update, replies, raised, tasks>>

\* ------------------------------------------------------- dictionary helpers
Keys(games) == {games[i].game_id : i \in DOMAIN games}

\* position of key game_id in the dict (the key is present)
IndexOf(games, game_id) == CHOOSE i \in DOMAIN games : games[i].game_id = game_id

\* active_games.get(game_id): the position of the game, or None
Get(games, game_id) ==
    IF game_id \in Keys(games) THEN IndexOf(games, game_id) ELSE None

\* active_games[game_id] = game: replaces in place, or inserts at the end
SetItem(games, game_id, game) ==
    IF game_id \in Keys(games)
    THEN [games EXCEPT ![IndexOf(games, game_id)] = game]
    ELSE Append(games, game)

\* del active_games[game_id]
DelItem(games, game_id) ==
    LET i == IndexOf(games, game_id)
    IN  SubSeq(games, 1, i - 1) \o SubSeq(games, i + 1, Len(games))

\* user_games[user_id] = game_id
SetUser(ug, user_id, game_id) ==
    [u \in DOMAIN ug \cup {user_id} |-> IF u = user_id THEN game_id ELSE ug[u]]

\* del user_games[user_id]
DelUser(ug, user_id) == [u \in DOMAIN ug \ {user_id} |-> ug[u]]

\* ------------------------------------------------------------ reply texts
Reply(text, args) == [text |-> text, args |-> args]

\* a game object that no handler holds
NoGame == [game_id      |-> None,
           player1      |-> None,
           player2      |-> None,
           player1_move |-> NoneMove,
           player2_move |-> NoneMove,
           status       |-> "none"]

\* no make_move coroutine of the user is in flight
IdleTask == [pc |-> "idle", game_id |-> None, game |-> NoGame,
             result |-> "none", raised |-> "none"]

\* --------------------------------------------------------------------- Init
Init ==
    /\ tasks = [u \in Users |-> IdleTask]
    /\ active_games = <<>>
    /\ user_games = [u \in {} |-> None]
    /\ issued = 0
    /\ update = [cmd |-> "none", user_id |-> None]
    /\ replies = <<>>
    /\ raised = "none"

\* ------------------------------------------------------------ start/help/stats
\* These handlers reply with a fixed text and read neither dictionary nor
\* the effective user.
Static(cmd) ==
    /\ update' = [cmd |-> cmd, user_id |-> None]
    /\ replies' = <<Reply(cmd, <<>>)>>
    /\ raised' = "none"
    /\ UNCHANGED <<active_games, user_games, issued, tasks>>

start == Static("start")

help_command == Static("help")

stats == Static("stats")

\* --------------------------------------------------------------------- play
\* mutant: the new game is stored as already active
NewGameActive(game_id, user_id) ==
    [game_id      |-> game_id,
     player1      |-> user_id,
     player2      |-> None,
     player1_move |-> NoneMove,
     player2_move |-> NoneMove,
     status       |-> "active"]

\* the record stored by play()
NewGame(game_id, user_id) ==
    [game_id      |-> game_id,
     player1      |-> user_id,
     player2      |-> None,
     player1_move |-> NoneMove,
     player2_move |-> NoneMove,
     status       |-> "waiting"]

play(user_id) ==
    /\ issued < MaxGames
    /\ LET game_id == issued + 1
       IN  /\ issued' = issued + 1
           /\ active_games' = SetItem(active_games, game_id, NewGame(game_id, user_id))
           /\ user_games' = SetUser(user_games, user_id, game_id)
           /\ replies' = <<Reply("created", <<game_id>>)>>
    /\ update' = [cmd |-> "play", user_id |-> user_id]
    /\ raised' = "none"
    /\ UNCHANGED tasks

\* --------------------------------------------------------------------- join
\* mutant: the scan does not exclude the user's own games
IsAvailableOwnToo(game, user_id) == game.status = "waiting"

\* mutant: the scan does not look at the status
IsAvailableAnyStatus(game, user_id) == game.player1 # user_id

\* the test of the scan loop
IsAvailable(game, user_id) ==
    game.status = "waiting" /\ game.player1 # user_id

\* the scan of join(): the first game, in dict order, that passes the test;
\* None when the loop ends without a break
AvailableGame(games, user_id) ==
    LET hits == {i \in DOMAIN games : IsAvailable(games[i], user_id)}
    IN  IF hits = {} THEN None
        ELSE games[CHOOSE i \in hits : \A j \in hits : i <= j].game_id

\* mutant: the joiner is written into the wrong player slot
JoinedAsPlayer1(game, user_id) ==
    [game EXCEPT !.player1 = user_id, !.status = "active"]

\* mutant: joining also clears the move slots
JoinedResetsMoves(game, user_id) ==
    [game EXCEPT !.player2 = user_id, !.status = "active",
                 !.player1_move = NoneMove, !.player2_move = NoneMove]

\* mutant: the joiner is not written into the game
JoinedStatusOnly(game, user_id) ==
    [game EXCEPT !.status = "active"]

\* the two writes into the game that was found
Joined(game, user_id) ==
    [game EXCEPT !.player2 = user_id, !.status = "active"]

join(user_id) ==
    /\ LET available_game == AvailableGame(active_games, user_id)
       IN  IF available_game = None
           THEN /\ replies' = <<Reply("no_available_games", <<>>)>>
                /\ UNCHANGED <<active_games, user_games>>
           ELSE LET i == IndexOf(active_games, available_game)
                IN  /\ active_games' = [active_games EXCEPT
                                             ![i] = Joined(active_games[i], user_id)]
                    /\ user_games' = SetUser(user_games, user_id, available_game)
                    /\ replies' = <<Reply("joined", <<>>)>>
    /\ update' = [cmd |-> "join", user_id |-> user_id]
    /\ raised' = "none"
    /\ UNCHANGED <<issued, tasks>>

\* ---------------------------------------------------------------- make_move
\* mutant: the test that picks the slot is inverted
SetMoveSwapped(game, user_id, move) ==
    IF game.player1 # user_id
    THEN [game EXCEPT !.player1_move = move]
    ELSE [game EXCEPT !.player2_move = move]

\* mutant: the move always goes into player2's slot
SetMoveAsPlayer2(game, user_id, move) ==
    [game EXCEPT !.player2_move = move]

\* the game after the player's move is set: player1's slot if the user is
\* player1 of the game, player2's slot otherwise
SetMove(game, user_id, move) ==
    IF game.player1 = user_id
    THEN [game EXCEPT !.player1_move = move]
    ELSE [game EXCEPT !.player2_move = move]

\* mutant: 'or' instead of 'and'
EitherMoved(game) ==
    game.player1_move # NoneMove \/ game.player2_move # NoneMove

\* "if game['player1_move'] and game['player2_move']"
BothMoved(game) ==
    game.player1_move # NoneMove /\ game.player2_move # NoneMove

\* mutant: one winning pair is mistyped
ResolveMistyped(p1_move, p2_move) ==
    IF p1_move = p2_move
    THEN "draw"
    ELSE IF \/ (p1_move = "rock" /\ p2_move = "scissors")
            \/ (p1_move = "paper" /\ p2_move = "scissors")
            \/ (p1_move = "scissors" /\ p2_move = "paper")
         THEN "player1_wins"
         ELSE "player2_wins"

\* mutant: the draw test is missing
ResolveNoDraw(p1_move, p2_move) ==
    IF \/ (p1_move = "rock" /\ p2_move = "scissors")
       \/ (p1_move = "paper" /\ p2_move = "rock")
       \/ (p1_move = "scissors" /\ p2_move = "paper")
    THEN "player1_wins"
    ELSE "player2_wins"

\* the winner, by the if / elif / else chain
Resolve(p1_move, p2_move) ==
    IF p1_move = p2_move
    THEN "draw"
    ELSE IF \/ (p1_move = "rock" /\ p2_move = "scissors")
            \/ (p1_move = "paper" /\ p2_move = "rock")
            \/ (p1_move = "scissors" /\ p2_move = "paper")
         THEN "player1_wins"
         ELSE "player2_wins"

\* "if user_id not in user_games": reply and return
NotInGame(user_id, move) ==
    /\ user_id \notin DOMAIN user_games
    /\ replies' = <<Reply("not_in_active_game", <<>>)>>
    /\ raised' = "none"
    /\ UNCHANGED <<active_games, user_games>>

\* mutant: the stale session entry is dropped before returning
GameNotFoundDropsEntry(user_id, move) ==
    /\ user_id \in DOMAIN user_games
    /\ Get(active_games, user_games[user_id]) = None
    /\ replies' = <<Reply("game_not_found", <<>>)>>
    /\ raised' = "none"
    /\ user_games' = DelUser(user_games, user_id)
    /\ UNCHANGED active_games

\* "if not game": the session entry names a game that is not in active_games
GameNotFound(user_id, move) ==
    /\ user_id \in DOMAIN user_games
    /\ Get(active_games, user_games[user_id]) = None
    /\ replies' = <<Reply("game_not_found", <<>>)>>
    /\ raised' = "none"
    /\ UNCHANGED <<active_games, user_games>>

\* the move is set and the other slot is still empty
WaitForOpponent(user_id, move) ==
    /\ user_id \in DOMAIN user_games
    /\ Get(active_games, user_games[user_id]) # None
    /\ LET i    == Get(active_games, user_games[user_id])
           game == SetMove(active_games[i], user_id, move)
       IN  /\ ~BothMoved(game)
           /\ active_games' = [active_games EXCEPT ![i] = game]
           /\ replies' = <<Reply("you_chose", <<move>>),
                           Reply("waiting_for_opponent", <<>>)>>
    /\ raised' = "none"
    /\ UNCHANGED user_games

\* the clean-up: del active_games[game_id]; del user_games[player1], which
\* raises KeyError when player1 has no entry; then player2's entry, if any
CleanUpGames(game_id) == DelItem(active_games, game_id)

CleanUpRaises(game) == game.player1 \notin DOMAIN user_games

CleanUpUsers(game) ==
    IF CleanUpRaises(game)
    THEN user_games
    ELSE LET ug == DelUser(user_games, game.player1)
         IN  IF game.player2 \in DOMAIN ug THEN DelUser(ug, game.player2) ELSE ug

\* the move is set and both slots are filled: result, then clean-up
GameOver(user_id, move) ==
    /\ user_id \in DOMAIN user_games
    /\ Get(active_games, user_games[user_id]) # None
    /\ LET game_id == user_games[user_id]
           i       == Get(active_games, game_id)
           game    == SetMove(active_games[i], user_id, move)
       IN  /\ BothMoved(game)
           /\ replies' = <<Reply("you_chose", <<move>>),
                           Reply("game_result",
                                 <<game.player1_move, game.player2_move,
                                   Resolve(game.player1_move, game.player2_move)>>)>>
           /\ active_games' = CleanUpGames(game_id)
           /\ user_games' = CleanUpUsers(game)
           /\ raised' = IF CleanUpRaises(game) THEN "KeyError" ELSE "none"

make_move(user_id, move) ==
    /\ \/ NotInGame(user_id, move)
       \/ GameNotFound(user_id, move)
       \/ WaitForOpponent(user_id, move)
       \/ GameOver(user_id, move)
    /\ update' = [cmd |-> move, user_id |-> user_id]
    /\ UNCHANGED <<issued, tasks>>

rock(user_id) == make_move(user_id, "rock")

paper(user_id) == make_move(user_id, "paper")

scissors(user_id) == make_move(user_id, "scissors")

\* --------------------------------------------------------------------- Next
Next ==
    \/ start
    \/ help_command
    \/ stats
    \/ \E user_id \in Users :
        \/ play(user_id)
        \/ join(user_id)
        \/ rock(user_id)
        \/ paper(user_id)
        \/ scissors(user_id)

Spec == Init /\ [][Next]_vars

\* ------------------------------------------------- interleaved make_move
\* The dispatcher of main() handles one update at a time (Spec).  If it is
\* built to handle updates concurrently, a make_move coroutine can be
\* suspended at each "await update.message.reply_text(...)" while the
\* handler of another user's update runs.  play and join touch the
\* dictionaries only before their single await, so they stay atomic; make_move
\* is cut at its awaits.  One coroutine per user is in flight at a time.
\*
\* A coroutine keeps its reference "game" to the game object also after the
\* object was deleted from active_games; nothing writes to a deleted object,
\* so the deleting handler leaves a copy with every coroutine that holds it.
Held(user_id) ==
    IF tasks[user_id].game_id \in Keys(active_games)
    THEN active_games[IndexOf(active_games, tasks[user_id].game_id)]
    ELSE tasks[user_id].game

\* the tasks after game_id was deleted: holders keep the object
KeepHeld(ts, game) ==
    [u \in Users |->
        IF ts[u].pc \in {"chose", "result"} /\ ts[u].game_id = game.game_id
        THEN [ts[u] EXCEPT !.game = game]
        ELSE ts[u]]

\* lines 118-140: the two early returns; else the move is set and the
\* coroutine is suspended in the 'You chose' reply
MoveBegin(user_id, move) ==
    /\ tasks[user_id].pc \in {"idle", "done"}
    /\ IF user_id \notin DOMAIN user_games
       THEN /\ tasks' = [tasks EXCEPT ![user_id] =
                            [IdleTask EXCEPT !.pc = "done", !.result = "not_in_active_game"]]
            /\ UNCHANGED active_games
       ELSE LET game_id == user_games[user_id]
                i       == Get(active_games, game_id)
            IN  IF i = None
                THEN /\ tasks' = [tasks EXCEPT ![user_id] =
                                     [IdleTask EXCEPT !.pc = "done", !.result = "game_not_found"]]
                     /\ UNCHANGED active_games
                ELSE /\ active_games' = [active_games EXCEPT
                                              ![i] = SetMove(active_games[i], user_id, move)]
                     /\ tasks' = [tasks EXCEPT ![user_id] =
                                     [IdleTask EXCEPT !.pc = "chose", !.game_id = game_id]]
    /\ UNCHANGED <<user_games, issued, update, replies, raised>>

\* lines 143-165 and 172-173: resumed after the 'You chose' reply; the result
\* is computed and the coroutine is suspended in the result reply, or the
\* 'Waiting for your opponent' reply ends the handler
MoveCheck(user_id) ==
    /\ tasks[user_id].pc = "chose"
    /\ LET game == Held(user_id)
       IN  IF BothMoved(game)
           THEN tasks' = [tasks EXCEPT ![user_id].pc = "result",
                                       ![user_id].result =
                                           Resolve(game.player1_move, game.player2_move)]
           ELSE tasks' = [tasks EXCEPT ![user_id].pc = "done",
                                       ![user_id].result = "waiting_for_opponent"]
    /\ UNCHANGED <<active_games, user_games, issued, update, replies, raised>>

\* lines 167-171: resumed after the result reply; the three deletions, the
\* first two of which raise KeyError when the key is gone
MoveCleanUp(user_id) ==
    /\ tasks[user_id].pc = "result"
    /\ LET game    == Held(user_id)
           game_id == tasks[user_id].game_id
       IN  IF game_id \notin Keys(active_games)
           THEN /\ tasks' = [tasks EXCEPT ![user_id].pc = "done",
                                          ![user_id].raised = "KeyError_active_games"]
                /\ UNCHANGED <<active_games, user_games>>
           ELSE /\ active_games' = CleanUpGames(game_id)
                /\ user_games' = CleanUpUsers(game)
                /\ tasks' = KeepHeld(
                       [tasks EXCEPT ![user_id].pc = "done",
                                     ![user_id].raised =
                                         IF CleanUpRaises(game)
                                         THEN "KeyError_user_games" ELSE "none"],
                       game)
    /\ UNCHANGED <<issued, update, replies, raised>>

ConcNext ==
    \E user_id \in Users :
        \/ play(user_id)
        \/ join(user_id)
        \/ \E move \in Moves : MoveBegin(user_id, move)
        \/ MoveCheck(user_id)
        \/ MoveCleanUp(user_id)

SpecConc == Init /\ [][ConcNext]_vars

\* ===================================================================== claims
\* the game records in the table
Games == {active_games[i] : i \in DOMAIN active_games}

\* the game stored under game_id (the key is present)
GameOf(games, game_id) == games[IndexOf(games, game_id)]

\* the handler of the last update was make_move
LastWasMove == update.cmd \in Moves

\* the handler of the last update sent a reply with this text
Replied(text) == \E k \in DOMAIN replies : replies[k].text = text

\* C1: every game whose status is 'waiting' has player2 empty and both move
\* slots empty.  (The code lets the creator submit a move before anyone has
\* joined, so this is violated.)
C1_WaitingGameIsEmpty ==
    \A g \in Games :
        g.status = "waiting" =>
            /\ g.player2 = None
            /\ g.player1_move = NoneMove
            /\ g.player2_move = NoneMove

\* C2: every game whose status is 'active' has both player slots filled, and
\* while an active game stays in the table its player1, its player2 and its
\* status never change.
C2_ActiveFilled ==
    \A g \in Games : g.status = "active" => g.player1 \in Users /\ g.player2 \in Users

C2_ActiveStable ==
    \A g \in Games :
        g.status = "active" =>
            \A h \in Games' :
                h.game_id = g.game_id =>
                    /\ h.player1 = g.player1
                    /\ h.player2 = g.player2
                    /\ h.status = "active"

\* C2: active games have both players, and keep players and status (every
\* state, every step).
C2_ActiveGameKeepsPlayers == [](C2_ActiveFilled) /\ [][C2_ActiveStable]_vars

\* an active game in which a move has been submitted
C2_Witness ==
    /\ LastWasMove
    /\ \E g \in Games : g.status = "active" /\ g.player2_move # NoneMove

\* C4: no game has the same user as player1 and player2, and a join by a
\* user never fills player2 of a game whose player1 is that user.
C4_NoSelfMatchState == \A g \in Games : g.player1 # g.player2

C4_NoSelfJoin ==
    update'.cmd = "join" =>
        \A g \in Games : \A h \in Games' :
            (h.game_id = g.game_id /\ g.player1 = update'.user_id) =>
                h.player2 = g.player2

\* C4: no game has one user in both slots and no join fills player2 of the
\* joiner's own game (every state, every step).
C4_NoSelfMatch == [](C4_NoSelfMatchState) /\ [][C4_NoSelfJoin]_vars

\* a user who has a waiting game of their own has joined another game
C4_Witness ==
    /\ update.cmd = "join"
    /\ Replied("joined")
    /\ \E g \in Games : g.player1 = update.user_id /\ g.status = "waiting"

\* C3: when a make_move leaves both move slots of a game filled (the result
\* is announced), then after the command the game is not in active_games and
\* neither its player1 nor its player2 has an entry in user_games.
C3_Resolution ==
    (/\ update'.cmd \in Moves
     /\ \E k \in DOMAIN replies' : replies'[k].text = "game_result"
     /\ update'.user_id \in DOMAIN user_games
     /\ user_games[update'.user_id] \in Keys(active_games)) =>
        LET g == GameOf(active_games, user_games[update'.user_id])
        IN  /\ g.game_id \notin Keys(active_games')
            /\ g.player1 \notin DOMAIN user_games'
            /\ g.player2 \notin DOMAIN user_games'

\* C3: every step that announces a result removes the game and both
\* players' entries.  (Violated: the clean-up can abort with KeyError.)
C3_ResolutionRemovesAll == [][C3_Resolution]_vars

\* C5: the announced outcome is defined and follows the reference table:
\* draw iff the moves are equal, player 1 wins iff the pair is (rock,
\* scissors), (paper, rock) or (scissors, paper), player 2 wins iff it is one
\* of the three remaining pairs.
FirstWins == {<<"rock", "scissors">>, <<"paper", "rock">>, <<"scissors", "paper">>}

SecondWins == {<<"scissors", "rock">>, <<"rock", "paper">>, <<"paper", "scissors">>}

C5_OutcomeTable ==
    \A k \in DOMAIN replies :
        replies[k].text = "game_result" =>
            LET a1 == replies[k].args[1]
                a2 == replies[k].args[2]
                r  == replies[k].args[3]
            IN  /\ a1 \in Moves /\ a2 \in Moves
                /\ r \in {"draw", "player1_wins", "player2_wins"}
                /\ r = "draw" <=> a1 = a2
                /\ r = "player1_wins" <=> <<a1, a2>> \in FirstWins
                /\ r = "player2_wins" <=> <<a1, a2>> \in SecondWins

\* paper against rock has been resolved
C5_Witness ==
    \E k \in DOMAIN replies :
        /\ replies[k].text = "game_result"
        /\ replies[k].args[1] = "paper" /\ replies[k].args[2] = "rock"

\* C6: the outcome is anti-symmetric: the announced outcome of (a, b) is
\* player 1 wins iff the outcome of (b, a) is player 2 wins, and it is a draw
\* iff the outcome of (b, a) is a draw.
C6_AntiSymmetric ==
    \A k \in DOMAIN replies :
        replies[k].text = "game_result" =>
            LET a == replies[k].args[1]
                b == replies[k].args[2]
                r == replies[k].args[3]
            IN  /\ r = "player1_wins" <=> Resolve(b, a) = "player2_wins"
                /\ r = "draw" <=> Resolve(b, a) = "draw"

\* a game with equal moves has been resolved
C6_Witness ==
    \E k \in DOMAIN replies :
        /\ replies[k].text = "game_result"
        /\ replies[k].args[1] = replies[k].args[2]

\* C7: play by P succeeds and adds exactly one record (player1 = P, player2
\* empty, both moves empty, status waiting) under an id that was not in the
\* table; afterwards P's entry in user_games names the new id; every other
\* record and every other user's entry is unchanged.
C7_Create ==
    update'.cmd = "play" =>
        LET P == update'.user_id
        IN  /\ raised' = "none"
            /\ P \in DOMAIN user_games'
            /\ user_games'[P] \notin Keys(active_games)
            /\ replies' = <<Reply("created", <<user_games'[P]>>)>>
            /\ Len(active_games') = Len(active_games) + 1
            /\ Games' = Games \cup {[game_id      |-> user_games'[P],
                                      player1      |-> P,
                                      player2      |-> None,
                                      player1_move |-> NoneMove,
                                      player2_move |-> NoneMove,
                                      status       |-> "waiting"]}
            /\ DOMAIN user_games' = DOMAIN user_games \cup {P}
            /\ \A u \in DOMAIN user_games \ {P} : user_games'[u] = user_games[u]

\* C7: every play step adds exactly the new waiting game and sets only the
\* creator's entry.
C7_CreateAddsOneGame == [][C7_Create]_vars

\* a user who was in a game has created another one while the other user
\* has an entry too
C7_Witness ==
    /\ update.cmd = "play"
    /\ Len(active_games) = 2
    /\ DOMAIN user_games = Users
    /\ \E g \in Games : g.player1 = update.user_id /\ g.game_id # user_games[update.user_id]

\* C8: join by P succeeds iff the table holds a waiting game whose player1
\* is not P; otherwise it replies 'no available games' and changes neither
\* dictionary.
C8_JoinStep ==
    update'.cmd = "join" =>
        LET P     == update'.user_id
            avail == \E g \in Games : g.status = "waiting" /\ g.player1 # P
        IN  /\ avail =>
                /\ replies' = <<Reply("joined", <<>>)>>
                /\ P \in DOMAIN user_games'
                /\ \E g \in Games :
                     /\ g.status = "waiting" /\ g.player1 # P
                     /\ user_games'[P] = g.game_id
                     /\ [g EXCEPT !.player2 = P, !.status = "active"] \in Games'
            /\ ~avail =>
                /\ replies' = <<Reply("no_available_games", <<>>)>>
                /\ UNCHANGED <<active_games, user_games>>

\* C8: every join step succeeds iff a waiting game of another user exists,
\* and otherwise changes nothing.
C8_JoinIffAvailable == [][C8_JoinStep]_vars

\* a join has failed although the table is not empty
C8_Witness ==
    /\ update.cmd = "join"
    /\ Replied("no_available_games")
    /\ active_games # <<>>

\* C9: make_move by a user without an entry in user_games replies 'not in an
\* active game'; by a user whose entry names a game that is not in the table
\* it replies 'game not found'; in both cases neither dictionary changes.
C9_FailedMove ==
    update'.cmd \in Moves =>
        LET P == update'.user_id
        IN  /\ P \notin DOMAIN user_games =>
                /\ replies' = <<Reply("not_in_active_game", <<>>)>>
                /\ UNCHANGED <<active_games, user_games>>
            /\ (P \in DOMAIN user_games /\ user_games[P] \notin Keys(active_games)) =>
                /\ replies' = <<Reply("game_not_found", <<>>)>>
                /\ UNCHANGED <<active_games, user_games>>

\* C9: every make_move step of a user without an entry, or with a stale
\* entry, sends the matching error reply and changes nothing.
C9_FailedMoveChangesNothing == [][C9_FailedMove]_vars

\* a move has been refused because the user's entry names a deleted game
C9_Witness == LastWasMove /\ Replied("game_not_found")

\* C10: after a make_move that set a move without resolving the game, the
\* game is in the table with status 'active' and exactly one move slot
\* filled, and the reply is 'waiting for opponent'.  (A creator who moves
\* before anyone has joined leaves the game 'waiting', so this is violated.)
C10_MoveWithoutResolution ==
    (LastWasMove /\ Replied("you_chose") /\ ~Replied("game_result")) =>
        /\ Replied("waiting_for_opponent")
        /\ update.user_id \in DOMAIN user_games
        /\ user_games[update.user_id] \in Keys(active_games)
        /\ LET g == GameOf(active_games, user_games[update.user_id])
           IN  /\ g.status = "active"
               /\ (g.player1_move = NoneMove) # (g.player2_move = NoneMove)

\* C11: no step deletes a user's entry in user_games while the game the
\* entry named is still in active_games after the step.  (Violated: the
\* clean-up deletes whatever entry the two players of the resolved game
\* have, also one that names another game.)
C11_EntryOutlivesNoGame ==
    \A u \in DOMAIN user_games :
        u \notin DOMAIN user_games' => user_games[u] \notin Keys(active_games')

\* C11: every step deletes an entry only together with the game it names.
\* (Violated, see above.)
C11_EntryDeletedOnlyWithItsGame == [][C11_EntryOutlivesNoGame]_vars

\* C12: the life of the first game.  The step that resolves it announces the
\* reference outcome of (creator's move, joiner's move), whoever moved last,
\* and leaves both dictionaries empty; a play that follows adds a waiting
\* game of the creator to the empty table.
RefOutcome(a1, a2) ==
    IF a1 = a2 THEN "draw"
    ELSE IF <<a1, a2>> \in FirstWins THEN "player1_wins" ELSE "player2_wins"

C12_FirstGameResolves ==
    (/\ issued = 1
     /\ update'.cmd \in Moves
     /\ \E k \in DOMAIN replies' : replies'[k].text = "game_result") =>
        /\ Len(active_games) = 1
        /\ LET g  == active_games[1]
               P  == update'.user_id
               a1 == IF P = g.player1 THEN update'.cmd ELSE g.player1_move
               a2 == IF P = g.player1 THEN g.player2_move ELSE update'.cmd
           IN  /\ P \in {g.player1, g.player2}
               /\ g.player1 # g.player2
               /\ replies' = <<Reply("you_chose", <<update'.cmd>>),
                               Reply("game_result", <<a1, a2, RefOutcome(a1, a2)>>)>>
        /\ raised' = "none"
        /\ active_games' = <<>>
        /\ DOMAIN user_games' = {}

C12_CreateAfterwards ==
    (/\ issued = 1 /\ active_games = <<>>
     /\ update'.cmd = "play") =>
        /\ replies' = <<Reply("created", <<2>>)>>
        /\ active_games' = <<[game_id      |-> 2,
                              player1      |-> update'.user_id,
                              player2      |-> None,
                              player1_move |-> NoneMove,
                              player2_move |-> NoneMove,
                              status       |-> "waiting"]>>
        /\ DOMAIN user_games' = {update'.user_id}
        /\ user_games'[update'.user_id] = 2

\* C12: the first game resolves to the reference outcome and leaves nothing
\* behind, and the play that follows succeeds (every step).
C12_Lifecycle == [][C12_FirstGameResolves /\ C12_CreateAfterwards]_vars

\* the first game was resolved by its creator moving last (player 1 wins),
\* and both dictionaries are empty
C12_Witness ==
    /\ issued = 1
    /\ active_games = <<>>
    /\ DOMAIN user_games = {}
    /\ replies = <<Reply("you_chose", <<"rock">>),
                   Reply("game_result", <<"rock", "scissors", "player1_wins">>)>>
    /\ update.cmd = "rock"

\* C13: also when the two players' make_move handlers interleave at their
\* awaits, one result is announced for a game and no handler fails on the
\* already deleted game.  (Violated: both coroutines find both slots filled,
\* both announce the result, and the second clean-up raises KeyError.)
Announced(user_id) ==
    tasks[user_id].result \in {"draw", "player1_wins", "player2_wins"}

C13_ResolvedOnce ==
    /\ \A u \in Users : \A v \in Users \ {u} :
           (Announced(u) /\ Announced(v)) => tasks[u].game_id # tasks[v].game_id
    /\ \A u \in Users : tasks[u].raised # "KeyError_active_games"

\* C14: a successful join by P changes exactly one game, which was waiting,
\* had no player2 and had a player1 other than P: its player2 becomes P and
\* its status 'active', its player1 and both move slots keep their values;
\* P's entry names that game; no other game and no other user's entry
\* changes.
C14_JoinStep ==
    (/\ update'.cmd = "join"
     /\ \E k \in DOMAIN replies' : replies'[k].text = "joined") =>
        LET P == update'.user_id
        IN  /\ Len(active_games') = Len(active_games)
            /\ \E i \in DOMAIN active_games :
                 LET g == active_games[i]
                 IN  /\ g.status = "waiting"
                     /\ g.player1 # P
                     /\ g.player2 = None
                     /\ active_games'[i] = [game_id      |-> g.game_id,
                                            player1      |-> g.player1,
                                            player2      |-> P,
                                            player1_move |-> g.player1_move,
                                            player2_move |-> g.player2_move,
                                            status       |-> "active"]
                     /\ \A j \in DOMAIN active_games \ {i} :
                            active_games'[j] = active_games[j]
                     /\ P \in DOMAIN user_games'
                     /\ user_games'[P] = g.game_id
            /\ DOMAIN user_games' = DOMAIN user_games \cup {P}
            /\ \A u \in DOMAIN user_games \ {P} : user_games'[u] = user_games[u]

\* C14: every successful join step changes one waiting game and the
\* joiner's entry, and nothing else.
C14_JoinChangesOneGame == [][C14_JoinStep]_vars

\* a game whose creator had already moved has been joined, while another
\* game is in the table
C14_Witness ==
    /\ update.cmd = "join"
    /\ Replied("joined")
    /\ Len(active_games) = 2
    /\ \E g \in Games :
         /\ g.game_id = user_games[update.user_id]
         /\ g.player2 = update.user_id
         /\ g.player1_move # NoneMove

\* C15: a make_move by P whose entry names a game m of the table writes only
\* P's own slot of m (player1_move if P is player1 of m, player2_move if P is
\* player2 of m) with the submitted move, replacing P's earlier move; the
\* opponent's slot keeps its value and no other game changes.  When the move
\* resolves m, the announced moves are P's new move and the opponent's
\* unchanged move, and only m leaves the table.
C15_MoveStep ==
    (/\ update'.cmd \in Moves
     /\ update'.user_id \in DOMAIN user_games
     /\ user_games[update'.user_id] \in Keys(active_games)) =>
        LET P     == update'.user_id
            g     == GameOf(active_games, user_games[P])
            after == IF P = g.player1
                     THEN [game_id      |-> g.game_id,
                           player1      |-> g.player1,
                           player2      |-> g.player2,
                           player1_move |-> update'.cmd,
                           player2_move |-> g.player2_move,
                           status       |-> g.status]
                     ELSE [game_id      |-> g.game_id,
                           player1      |-> g.player1,
                           player2      |-> g.player2,
                           player1_move |-> g.player1_move,
                           player2_move |-> update'.cmd,
                           status       |-> g.status]
        IN  /\ P \in {g.player1, g.player2}
            /\ Games \ {g} \subseteq Games'
            /\ Games' \subseteq (Games \ {g}) \cup {after}
            /\ after \notin Games' =>
                 \E k \in DOMAIN replies' :
                     /\ replies'[k].text = "game_result"
                     /\ replies'[k].args[1] = after.player1_move
                     /\ replies'[k].args[2] = after.player2_move

\* C15: every make_move step writes the submitter's own slot of the
\* submitter's game, and nothing else.
C15_MoveWritesOwnSlot == [][C15_MoveStep]_vars

\* player2 of a game has moved before its creator, while another game is
\* in the table
C15_Witness ==
    /\ LastWasMove
    /\ Replied("waiting_for_opponent")
    /\ Len(active_games) = 2
    /\ \E g \in Games :
         /\ g.game_id = user_games[update.user_id]
         /\ g.player2 = update.user_id
         /\ g.player2_move = update.cmd
         /\ g.player1_move = NoneMove

\* C16: every entry of user_games names a game that is in active_games, and
\* the 'Game not found' reply is never sent.  (Violated: a clean-up that
\* aborts with KeyError has deleted the game but not player2's entry.)
C16_NoDanglingEntry ==
    /\ \A u \in DOMAIN user_games : user_games[u] \in Keys(active_games)
    /\ ~Replied("game_not_found")

\* C17: whenever a game resolves, its player1 still has an entry in
\* user_games, so the clean-up never ends in KeyError.  (Violated: the entry
\* was deleted when another game of the same creator resolved.)
C17_CleanUpCompletes ==
    (LastWasMove /\ Replied("game_result")) => raised = "none"

\* C18: every entry P -> m whose game m is in the table belongs to player1
\* or player2 of m, and a make_move that takes the else-branch (P is not
\* player1 of the game) is made by player2 of the game.
C18_EntryOfPlayer ==
    \A u \in DOMAIN user_games :
        user_games[u] \in Keys(active_games) =>
            LET g == GameOf(active_games, user_games[u])
            IN  u = g.player1 \/ u = g.player2

C18_ElseBranch ==
    (/\ update'.cmd \in Moves
     /\ update'.user_id \in DOMAIN user_games
     /\ user_games[update'.user_id] \in Keys(active_games)) =>
        LET g == GameOf(active_games, user_games[update'.user_id])
        IN  update'.user_id # g.player1 => update'.user_id = g.player2

\* C18: entries belong to players of the game they name, and the else-branch
\* is taken by player2 only (every state, every step).
C18_EntryBelongsToPlayer == [](C18_EntryOfPlayer) /\ [][C18_ElseBranch]_vars

\* player2 of a game has moved (the else-branch was taken)
C18_Witness ==
    /\ LastWasMove
    /\ Replied("you_chose")
    /\ \E g \in Games :
         /\ g.game_id = user_games[update.user_id]
         /\ g.player2 = update.user_id
         /\ g.player2_move = update.cmd

\* C19: every user who fills a slot of a game of the table has an entry in
\* user_games that names that game.  (Violated: play and join re-point the
\* entry of a user who is still a player of another game.)
C19_PlayerHasEntry ==
    \A g \in Games : \A u \in {g.player1, g.player2} \ {None} :
        u \in DOMAIN user_games /\ user_games[u] = g.game_id

\* C20: a waiting game never has player2_move filled; a game leaves the
\* table only in a make_move step that announces a result, and only a game
\* that was active.
C20_WaitingHasNoSecondMove ==
    \A g \in Games : g.status = "waiting" => g.player2_move = NoneMove

C20_Removal ==
    \A g \in Games :
        g.game_id \notin Keys(active_games') =>
            /\ update'.cmd \in Moves
            /\ \E k \in DOMAIN replies' : replies'[k].text = "game_result"
            /\ g.status = "active"
            /\ g.player2 \in Users

\* C20: a waiting game has no second move and only resolution removes a
\* game, and only an active one (every state, every step).
C20_OnlyActiveGamesResolve == [](C20_WaitingHasNoSecondMove) /\ [][C20_Removal]_vars

\* a game was resolved while a waiting game, in which the creator has
\* already moved, stays in the table
C20_Witness ==
    /\ LastWasMove
    /\ Replied("game_result")
    /\ \E g \in Games : g.status = "waiting" /\ g.player1_move # NoneMove
====
